---- MODULE Spec2Model ----
(***************************************************************************)
(* Model of src/excel-processor/app.py: the sheet normaliser               *)
(* (clean_dataframe), the per-sheet task (process_single_sheet_task), the  *)
(* dispatcher (excel_to_html_fast) and the assembler (process).            *)
(*                                                                         *)
(* Text is kept as tokens: a cell is one token, a column label is a        *)
(* sequence of tokens (so that f"{h0}_{h1}" is <<h0, "_", h1>>).           *)
(***************************************************************************)
EXTENDS Integers, Sequences, FiniteSets, TLC

VARIABLES
    \* ---- one sheet through clean_dataframe and the summary builder
    sheetPc,        \* "idle" | "raw" | "clean" | "none" | "summarized"
    raw,            \* the grid read with header=None: a sequence of rows
    df,             \* the DataFrame clean_dataframe returned
    summary_lines,  \* the summary lines built from df
    \* ---- one request through process / excel_to_html_fast
    pc,             \* "idle" | "start" | "pool" | "inline" | "assemble" | "done"
    workbook,       \* the uploaded workbook: its sheets in declared order
    uuids,          \* uuids[i]: what uuid4().hex[:8] yields in the task of dfs[i]
    dfs,            \* the ordered dict read_excel returned
    futures,        \* the tasks submitted to the pool, in submission order
    taskState,      \* taskState[i]: "queued" | "running" | "done"
    taskResult,     \* taskResult[i]: what task i returned
    pending,        \* the futures "for future in futures" has not reached yet
    overtaken,      \* TRUE once a task finished before an earlier-submitted one
    results,        \* excel_to_html_fast's results dict, in insertion order
    response,       \* what process returned
    \* ---- the same sheets dispatched one after another (lines 232-234)
    seqUuids,       \* the uuid4 draws of that run
    seqOut,         \* its outcome
    \* ---- the preview blob: lines 158-160 and the fragment's script, line 186
    codecPc,        \* "idle" | "text" | "encoded" | "decoded"
    raw_html_table, \* the markup, a sequence of Unicode code points
    html_bytes,     \* raw_html_table.encode('utf-8')
    base64_str,     \* base64.b64encode(html_bytes).decode('utf-8'), as char codes
    decodedHtml     \* what the script's decode yields, as UTF-16 code units

sheetVars == <<sheetPc, raw, df, summary_lines>>
requestVars == <<pc, workbook, uuids, dfs, futures, taskState, taskResult,
                 pending, overtaken, results, response>>
seqVars == <<seqUuids, seqOut>>
codecVars == <<codecPc, raw_html_table, html_bytes, base64_str, decodedHtml>>
vars == <<sheetVars, requestVars, seqVars, codecVars>>

----------------------------------------------------------------------------
(* Bounds of the explored inputs *)
MaxRows == 3
MaxCols == 3
MaxTallRows == 53
MaxSheets == 3
MaxPoolSheets == 5
MaxTextLen == 3

(* Program constants *)
MAX_RAG_ROWS == 1000
MAX_PREVIEW_ROWS == 3000
SUMMARY_ROWS == 50

----------------------------------------------------------------------------
(* Cells.  pandas' NaN is Null; every other cell is a text token. *)
Null == "<NA>"

SheetLabel == "Sheet1"

\* str(v): NaN prints as "nan" (so does astype(str) on the object row of
\* line 59, which leaves fillna('') nothing to replace).
Str(v) == IF v = Null THEN "nan" ELSE v

\* str.strip() on the tokens of the model's alphabet.
Strip(s) == CASE s = " "  -> ""
              [] s = "b " -> "b"
              [] OTHER    -> s

\* str(i) for the default integer column labels of header=None.
IntStr(i) == CASE i = 0 -> "0" [] i = 1 -> "1" [] i = 2 -> "2" [] i = 3 -> "3"
               [] i = 4 -> "4" [] OTHER -> "n"

Min(a, b) == IF a < b THEN a ELSE b

RECURSIVE Pick(_, _, _)
\* The subsequence of s at the positions in keep, from position i on.
Pick(s, keep, i) ==
    IF i > Len(s) THEN <<>>
    ELSE (IF i \in keep THEN <<s[i]>> ELSE <<>>) \o Pick(s, keep, i + 1)

Width(grid) == IF Len(grid) = 0 THEN 0 ELSE Len(grid[1])

\* pd.read_excel(..., header=None) for one sheet: RangeIndex rows and columns.
DataFrame(grid) ==
    [index   |-> [r \in 1..Len(grid) |-> r - 1],
     columns |-> [c \in 1..Width(grid) |-> <<IntStr(c - 1)>>],
     data    |-> grid]

NRows(d) == Len(d.index)
NCols(d) == Len(d.columns)

\* DataFrame.empty
IsEmpty(d) == NRows(d) = 0 \/ NCols(d) = 0

\* df.dropna(how='all', axis=0).dropna(how='all', axis=1)
dropna_all(d) ==
    LET keepR == {r \in 1..NRows(d) : \E c \in 1..NCols(d) : d.data[r][c] # Null}
        keepC == {c \in 1..NCols(d) : \E r \in keepR : d.data[r][c] # Null}
        rows  == Pick(d.data, keepR, 1)
    IN [index   |-> Pick(d.index, keepR, 1),
        columns |-> Pick(d.columns, keepC, 1),
        data    |-> [r \in 1..Len(rows) |-> Pick(rows[r], keepC, 1)]]

\* df.iloc[k:]
iloc_from(d, k) ==
    [index   |-> SubSeq(d.index, k + 1, NRows(d)),
     columns |-> d.columns,
     data    |-> SubSeq(d.data, k + 1, NRows(d))]

\* Series.ffill() along a sequence.
RECURSIVE ffill(_)
ffill(s) ==
    IF Len(s) = 0 THEN <<>>
    ELSE LET init == ffill(SubSeq(s, 1, Len(s) - 1))
             last == s[Len(s)]
         IN Append(init, IF last = Null /\ Len(init) > 0 THEN init[Len(init)] ELSE last)

\* row0_empty_ratio < 0.5, with row0_empty_ratio = isna().sum() / shape[1]
row0_is_header_le(d) ==
    2 * Cardinality({c \in 1..NCols(d) : d.data[1][c] = Null}) <= NCols(d)

row0_is_header(d) ==
    2 * Cardinality({c \in 1..NCols(d) : d.data[1][c] = Null}) < NCols(d)

\* The label of one column in the two-row header merge.
merged_label(h0raw, h1raw) ==
    LET h0 == IF h0raw # Null THEN h0raw ELSE ""
        h1 == IF h1raw # Null THEN h1raw ELSE ""
    IN IF h0 # "" /\ h1 # "" /\ h0 # h1 THEN <<h0, "_", h1>>
       ELSE IF h1 # "" THEN <<h1>> ELSE <<h0>>

\* Step 2 with row 0 paired as it stands, without df.iloc[0].ffill().
resolve_header_unfilled(d) ==
    IF row0_is_header(d)
    THEN [iloc_from(d, 1) EXCEPT
            !.columns = [c \in 1..NCols(d) |-> <<Str(d.data[1][c])>>]]
    ELSE [iloc_from(d, 2) EXCEPT
            !.columns = [c \in 1..NCols(d) |->
                           merged_label(d.data[1][c], d.data[2][c])]]

\* Step 2 of clean_dataframe, for a frame with more than one row.
resolve_header(d) ==
    IF row0_is_header(d)
    THEN [iloc_from(d, 1) EXCEPT
            !.columns = [c \in 1..NCols(d) |-> <<Str(d.data[1][c])>>]]
    ELSE LET headers_row0 == ffill(d.data[1])
             headers_row1 == d.data[2]
         IN [iloc_from(d, 2) EXCEPT
               !.columns = [c \in 1..NCols(d) |->
                              merged_label(headers_row0[c], headers_row1[c])]]

\* One column of the frame, and the frame with column c replaced.
Column(d, c) == [r \in 1..NRows(d) |-> d.data[r][c]]

SetColumns(d, newcol) ==
    \* newcol: a function from some column positions to column vectors
    [d EXCEPT !.data = [r \in 1..NRows(d) |->
        [c \in 1..NCols(d) |->
            IF c \in DOMAIN newcol THEN newcol[c][r] ELSE d.data[r][c]]]]

\* Positions of the columns that carry label l, in order.
Positions(d, l) == Pick([c \in 1..NCols(d) |-> c],
                        {c \in 1..NCols(d) : d.columns[c] = l}, 1)

\* Step 3: df[cols_to_fill] = df[cols_to_fill].ffill(), where cols_to_fill are
\* the LABELS of the first min(2, width) columns.  Selection and assignment go
\* by label: df[labels] takes every column carrying one of the labels, and the
\* assignment loops "for k1, k2 in zip(key, value.columns): self[k1] =
\* value[k2]", raising ValueError when the widths disagree.  The result is
\* [raised, df]; a raise leaves the columns assigned before it filled.
fill_left(d) ==
    IF IsEmpty(d) THEN [raised |-> FALSE, df |-> d]
    ELSE
    LET L0 == d.columns[1]
        P0 == Positions(d, L0)
        filled(ps) == [i \in 1..Len(ps) |-> ffill(Column(d, ps[i]))]
        assign(target, source) ==
            \* columns at positions target take the filled columns at source
            [c \in {target[i] : i \in 1..Len(target)} |->
                LET i == CHOOSE j \in 1..Len(target) : target[j] = c
                IN filled(source)[i]]
    IN IF NCols(d) = 1
       THEN [raised |-> FALSE, df |-> SetColumns(d, assign(P0, P0))]
       ELSE
       LET L1 == d.columns[2]
           P1 == Positions(d, L1)
       IN IF L0 = L1
          THEN \* value[L0] has 2*|P0| columns, self[L0] has |P0|
               [raised |-> TRUE, df |-> d]
          ELSE LET d1 == SetColumns(d, assign(P0, P0))
               IN IF Len(P0) = 1
                  THEN [raised |-> FALSE,
                        df |-> SetColumns(d1, assign(P1, P1))]
                  ELSE \* value.columns[1] is L0 again: self[L1] = value[L0]
                       IF Len(P1) = Len(P0)
                       THEN [raised |-> FALSE,
                             df |-> SetColumns(d1, assign(P1, P0))]
                       ELSE [raised |-> TRUE, df |-> d1]

\* Step 4: df.fillna('')
fillna(d) ==
    [d EXCEPT !.data = [r \in 1..NRows(d) |->
        [c \in 1..NCols(d) |-> IF d.data[r][c] = Null THEN "" ELSE d.data[r][c]]]]

clean_dataframe(d0) ==
    LET d1 == dropna_all(d0)
    IN IF IsEmpty(d1) THEN d1
       ELSE LET d2 == IF NRows(d1) > 1 THEN resolve_header(d1) ELSE d1
                d3 == fill_left(d2)
            IN IF d3.raised THEN d3.df ELSE fillna(d3.df)

----------------------------------------------------------------------------
(* The semantic summary: process_single_sheet_task, lines 111-125.  A line  *)
(* is [sheet, row, parts], parts being the (label, trimmed value) pairs.    *)

\* The provenance prefix of one line: the row number is the index label + 1.
row_context_positional(sheet_name, d, r) == [sheet |-> sheet_name, row |-> r]

row_context(sheet_name, d, r) == [sheet |-> sheet_name, row |-> d.index[r] + 1]

\* parts: the (col, str(val).strip()) pairs of row r with a non-empty value
row_parts(d, r) ==
    LET keep == {c \in 1..NCols(d) : Strip(Str(d.data[r][c])) # ""}
    IN Pick([c \in 1..NCols(d) |-> <<d.columns[c], Strip(Str(d.data[r][c]))>>],
            keep, 1)

RECURSIVE summary_from(_, _, _, _)
summary_from(sheet_name, d, r, last) ==
    IF r > last THEN <<>>
    ELSE LET parts == row_parts(d, r)
         IN (IF parts # <<>>
             THEN <<[sheet |-> row_context(sheet_name, d, r).sheet,
                     row   |-> row_context(sheet_name, d, r).row,
                     parts |-> parts]>>
             ELSE <<>>) \o summary_from(sheet_name, d, r + 1, last)

\* for i, row in df.head(50).iterrows(): ...
build_summary(sheet_name, d) ==
    summary_from(sheet_name, d, 1, Min(NRows(d), SUMMARY_ROWS))

----------------------------------------------------------------------------
(* process_single_sheet_task.  A fragment is kept as a record of what the   *)
(* f-string splices together; the Base64 preview blob is modelled on its    *)
(* own, on arbitrary text, by the codec specification below.                *)

NoFragment == [kind |-> "none"]

head(d, n) == [columns |-> d.columns, data |-> SubSeq(d.data, 1, Min(NRows(d), n))]

\* frame: [name, df, bad]; bad marks content whose rendering raises inside the
\* try block (for instance text that .encode('utf-8') rejects).
process_single_sheet_task(sheet_name, frame, uuid) ==
    LET d == clean_dataframe(frame.df)
    IN IF IsEmpty(d) THEN NoFragment
       ELSE IF frame.bad
       THEN [kind     |-> "triple",
             name     |-> sheet_name,
             content  |-> [kind    |-> "error",
                           sheet   |-> sheet_name,
                           message |-> "render error"],
             sheet_id |-> <<"error", uuid>>]
       ELSE [kind     |-> "triple",
             name     |-> sheet_name,
             content  |-> [kind      |-> "sheet",
                           id        |-> <<"sheet", uuid>>,
                           title     |-> sheet_name,
                           truncated |-> NRows(d) > MAX_PREVIEW_ROWS,
                           summary   |-> build_summary(sheet_name, d),
                           markdown  |-> head(d, MAX_RAG_ROWS),
                           preview   |-> head(d, MAX_PREVIEW_ROWS)],
             sheet_id |-> <<"sheet", uuid>>]

----------------------------------------------------------------------------
(* excel_to_html_fast *)

max_workers == 4

RECURSIVE read_excel(_)
\* pd.read_excel(sheet_name=None): a dict keyed by sheet name, in the order of
\* first occurrence; a repeated name keeps the sheet found first under it.
read_excel(wb) ==
    IF Len(wb) = 0 THEN <<>>
    ELSE LET init == read_excel(SubSeq(wb, 1, Len(wb) - 1))
             last == wb[Len(wb)]
         IN IF \E i \in 1..Len(init) : init[i].name = last.name
            THEN init
            ELSE Append(init, [name |-> last.name,
                               df   |-> DataFrame(last.grid),
                               bad  |-> last.bad])

\* results[name] = (content, sheet_id) on an insertion-ordered dict.
dict_set(d, name, content, sheet_id) ==
    LET item == [name |-> name, content |-> content, sheet_id |-> sheet_id]
    IN IF \E i \in 1..Len(d) : d[i].name = name
       THEN [i \in 1..Len(d) |-> IF d[i].name = name THEN item ELSE d[i]]
       ELSE Append(d, item)

\* A worker process is free: at most max_workers tasks execute at once.
can_start_unbounded(running) == TRUE

can_start(running) == Cardinality(running) < max_workers

\* "for future in futures": the loop takes the futures in submission order and
\* blocks in future.result() until that one is done.
next_future_as_completed(pend, state) ==
    {pend[k] : k \in {j \in 1..Len(pend) : state[pend[j]] = "done"}}

next_future(pend, state) ==
    IF Len(pend) > 0 /\ state[pend[1]] = "done" THEN {pend[1]} ELSE {}

RECURSIVE inline_loop(_, _, _, _)
\* Lines 232-234: "_, content, sheet_id = process_single_sheet_task(name, df)"
\* for each item in turn.  Unpacking None raises TypeError out of the function.
inline_loop(items, ids, i, acc) ==
    IF i > Len(items) THEN [raised |-> FALSE, results |-> acc]
    ELSE LET r == process_single_sheet_task(items[i].name, items[i], ids[i])
         IN IF r.kind = "none"
            THEN [raised |-> TRUE, results |-> acc]
            ELSE inline_loop(items, ids, i + 1,
                             dict_set(acc, items[i].name, r.content, r.sheet_id))

\* process, lines 250-324: the table of contents, the joined body, the shell.
assemble(sheets_data) ==
    [status   |-> 200,
     sheets   |-> sheets_data,
     combined |->
        IF Len(sheets_data) = 0
        THEN [kind |-> "placeholder"]
        ELSE [kind |-> "document",
              toc  |-> [i \in 1..Len(sheets_data) |->
                          <<sheets_data[i].sheet_id, sheets_data[i].name>>],
              body |-> [i \in 1..Len(sheets_data) |-> sheets_data[i].content]]]

\* process, lines 326-328
failure == [status |-> 500, error |-> "TypeError"]

----------------------------------------------------------------------------
(* Workbooks *)

SheetNameOf == <<"S1", "S2", "S3", "S4", "S5", "S6", "S7", "S8">>

OkGrid == << <<"a", "b">>, <<"p", Null>>, <<Null, "q">> >>
BlankGrid == << <<Null, Null>> >>

SheetKinds == {"empty", "ok", "bad"}

SheetOf(i, name, kind) ==
    [name |-> name,
     grid |-> IF kind = "empty" THEN (IF i % 2 = 1 THEN <<>> ELSE BlankGrid)
              ELSE OkGrid,
     bad  |-> kind = "bad"]

\* Up to MaxSheets sheets, each under its own name or under "Data".
RichWorkbooks ==
    UNION {{[i \in 1..n |-> SheetOf(i, nm[i], kd[i])] :
               nm \in [1..n -> {"own", "Data"}], kd \in [1..n -> SheetKinds]} :
           n \in 1..MaxSheets}

RichNamed ==
    {[i \in 1..Len(wb) |->
         [wb[i] EXCEPT !.name = IF wb[i].name = "own" THEN SheetNameOf[i] ELSE "Data"]] :
     wb \in RichWorkbooks}

\* More sheets than workers, all with data and distinct names.
PlainWorkbooks ==
    {[i \in 1..n |-> SheetOf(i, SheetNameOf[i], "ok")] :
        n \in (MaxSheets + 1)..MaxPoolSheets}

\* The uuid4 draws: all distinct, or all the same 32 bits.
UuidStreams(n) == {[i \in 1..n |-> i], [i \in 1..n |-> 1]}

SheetIdle ==
    /\ sheetPc = "idle"
    /\ raw = <<>>
    /\ df = [index |-> <<>>, columns |-> <<>>, data |-> <<>>]
    /\ summary_lines = <<>>

RequestIdle ==
    /\ pc = "idle"
    /\ workbook = <<>>
    /\ uuids = <<>>
    /\ dfs = <<>>
    /\ futures = <<>>
    /\ taskState = <<>>
    /\ taskResult = <<>>
    /\ pending = <<>>
    /\ overtaken = FALSE
    /\ results = <<>>
    /\ response = [status |-> 0]

SeqIdle ==
    /\ seqUuids = <<>>
    /\ seqOut = [kind |-> "idle"]

RequestStart ==
    /\ pc = "start"
    /\ dfs = <<>>
    /\ futures = <<>>
    /\ taskState = <<>>
    /\ taskResult = <<>>
    /\ pending = <<>>
    /\ overtaken = FALSE
    /\ results = <<>>
    /\ response = [status |-> 0]

CodecIdle ==
    /\ codecPc = "idle"
    /\ raw_html_table = <<>>
    /\ html_bytes = <<>>
    /\ base64_str = <<>>
    /\ decodedHtml = <<>>

Init ==
    /\ SheetIdle
    /\ SeqIdle
    /\ CodecIdle
    /\ RequestStart
    /\ workbook \in RichNamed \cup PlainWorkbooks
    /\ uuids \in UuidStreams(Len(workbook))

----------------------------------------------------------------------------
(* Actions of one request *)

\* excel_to_html_fast, lines 210-225: read the workbook; with more than one
\* sheet, submit one task per item of dfs to a pool of max_workers processes.
Dispatch ==
    /\ pc = "start"
    /\ dfs' = read_excel(workbook)
    /\ IF Len(dfs') > 1
       THEN /\ futures' = [i \in 1..Len(dfs') |-> dfs'[i].name]
            /\ taskState' = [i \in 1..Len(dfs') |-> "queued"]
            /\ taskResult' = [i \in 1..Len(dfs') |-> NoFragment]
            /\ pending' = [i \in 1..Len(dfs') |-> i]
            /\ pc' = "pool"
       ELSE /\ pc' = "inline"
            /\ UNCHANGED <<futures, taskState, taskResult, pending>>
    /\ UNCHANGED <<workbook, uuids, overtaken, results, response>>
    /\ UNCHANGED <<sheetVars, seqVars, codecVars>>

\* A free worker takes the oldest queued task.
StartTask ==
    /\ pc = "pool"
    /\ \E i \in DOMAIN taskState :
        /\ taskState[i] = "queued"
        /\ \A j \in DOMAIN taskState : j < i => taskState[j] # "queued"
        /\ can_start({j \in DOMAIN taskState : taskState[j] = "running"})
        /\ taskState' = [taskState EXCEPT ![i] = "running"]
    /\ UNCHANGED <<pc, workbook, uuids, dfs, futures, taskResult, pending,
                   overtaken, results, response>>
    /\ UNCHANGED <<sheetVars, seqVars, codecVars>>

\* A worker finishes process_single_sheet_task for its sheet.
FinishTask ==
    /\ pc = "pool"
    /\ \E i \in DOMAIN taskState :
        /\ taskState[i] = "running"
        /\ taskState' = [taskState EXCEPT ![i] = "done"]
        /\ taskResult' = [taskResult EXCEPT
                            ![i] = process_single_sheet_task(dfs[i].name, dfs[i], uuids[i])]
        /\ overtaken' = (overtaken \/ \E j \in 1..(i - 1) : taskState[j] # "done")
    /\ UNCHANGED <<pc, workbook, uuids, dfs, futures, pending, results, response>>
    /\ UNCHANGED <<sheetVars, seqVars, codecVars>>

\* Lines 226-230: take the next future's result; a None result fails to
\* unpack and is swallowed by "except Exception: pass".
Collect ==
    /\ pc = "pool"
    /\ \E i \in next_future(pending, taskState) :
        /\ pending' = SelectSeq(pending, LAMBDA x : x # i)
        /\ results' = IF taskResult[i].kind = "triple"
                      THEN dict_set(results, taskResult[i].name,
                                    taskResult[i].content, taskResult[i].sheet_id)
                      ELSE results
    /\ UNCHANGED <<pc, workbook, uuids, dfs, futures, taskState, taskResult,
                   overtaken, response>>
    /\ UNCHANGED <<sheetVars, seqVars, codecVars>>

\* The loop is over and the with-block exits.
PoolExit ==
    /\ pc = "pool"
    /\ pending = <<>>
    /\ pc' = "assemble"
    /\ UNCHANGED <<workbook, uuids, dfs, futures, taskState, taskResult, pending,
                   overtaken, results, response>>
    /\ UNCHANGED <<sheetVars, seqVars, codecVars>>

\* Lines 231-234: a single sheet runs in the caller; a TypeError from the
\* unpacking reaches process, which answers 500 (lines 326-328).
Inline ==
    /\ pc = "inline"
    /\ LET out == inline_loop(dfs, uuids, 1, <<>>)
       IN IF out.raised
          THEN /\ response' = failure
               /\ pc' = "done"
               /\ UNCHANGED results
          ELSE /\ results' = out.results
               /\ pc' = "assemble"
               /\ UNCHANGED response
    /\ UNCHANGED <<workbook, uuids, dfs, futures, taskState, taskResult, pending,
                   overtaken>>
    /\ UNCHANGED <<sheetVars, seqVars, codecVars>>

\* process, lines 250-324
Assemble ==
    /\ pc = "assemble"
    /\ response' = assemble(results)
    /\ pc' = "done"
    /\ UNCHANGED <<workbook, uuids, dfs, futures, taskState, taskResult, pending,
                   overtaken, results>>
    /\ UNCHANGED <<sheetVars, seqVars, codecVars>>

Next == Dispatch \/ StartTask \/ FinishTask \/ Collect \/ PoolExit \/ Inline \/ Assemble

Spec == Init /\ [][Next]_vars

----------------------------------------------------------------------------
(* Properties of one request *)

\* The sheet yields a fragment: it is not empty after normalization.
Survives(frame) == ~IsEmpty(clean_dataframe(frame))

\* The first position of a sheet name in the workbook's declared order.
FirstPos(nm) ==
    CHOOSE i \in 1..Len(workbook) :
        /\ workbook[i].name = nm
        /\ \A j \in 1..(i - 1) : workbook[j].name # nm

ResultNames == [i \in 1..Len(results) |-> results[i].name]

\* Declared positions of the sheets that reach the dispatcher and survive.
SurvivingPos ==
    {i \in 1..Len(workbook) :
        /\ FirstPos(workbook[i].name) = i
        /\ Survives(DataFrame(workbook[i].grid))}

Returned == pc \in {"assemble", "done"}

Running == {i \in DOMAIN taskState : taskState[i] = "running"}

\* C1: for a workbook with more than one sheet, whatever the order in which
\* the tasks complete, the result mapping is in the workbook's declared sheet
\* order at every moment, holds exactly the surviving sheets once the
\* dispatcher has returned, and the table of contents and the body of the
\* assembled document follow that same order.
C1_DeclaredOrder ==
    Len(workbook) > 1 =>
        /\ \A i, j \in 1..Len(results) :
             i < j => FirstPos(results[i].name) < FirstPos(results[j].name)
        /\ (Returned /\ response.status # 500) =>
             ResultNames = Pick([i \in 1..Len(workbook) |-> workbook[i].name],
                                SurvivingPos, 1)
        /\ (pc = "done" /\ response.status = 200 /\ Len(results) > 0) =>
             /\ response.combined.kind = "document"
             /\ response.combined.toc =
                    [i \in 1..Len(results) |-> <<results[i].sheet_id, results[i].name>>]
             /\ response.combined.body =
                    [i \in 1..Len(results) |-> results[i].content]

\* A document of several sheets assembled after tasks finished out of order.
C1_Witness ==
    /\ pc = "done" /\ overtaken
    /\ response.status = 200
    /\ Len(results) >= 2
    /\ Len(response.combined.toc) = Len(results)

\* C2 as stated: in one assembled document no two fragments carry the same
\* anchor ID.
C2_AsStated ==
    (pc = "done" /\ response.status = 200) =>
        \A i, j \in 1..Len(results) :
            i # j => results[i].sheet_id # results[j].sheet_id

\* C3 as stated: when two or more non-empty sheets share a display name, each
\* of them has its own entry in the table of contents, with pairwise distinct
\* anchors, and its own fragment in the mapping and the body.
C3_AsStated ==
    (pc = "done" /\ response.status = 200) =>
        \A nm \in {workbook[i].name : i \in 1..Len(workbook)} :
            LET same == {i \in 1..Len(workbook) :
                            /\ workbook[i].name = nm
                            /\ Survives(DataFrame(workbook[i].grid))}
            IN Cardinality(same) >= 2 =>
                /\ response.combined.kind = "document"
                /\ LET entries == {k \in 1..Len(response.combined.toc) :
                                      response.combined.toc[k][2] = nm}
                   IN /\ Cardinality(entries) = Cardinality(same)
                      /\ \A k, l \in entries :
                            k # l => response.combined.toc[k][1]
                                        # response.combined.toc[l][1]
                /\ Cardinality({k \in 1..Len(results) : results[k].name = nm})
                      = Cardinality(same)

\* C4 as stated: an empty sheet is no error; it is left out of the mapping and
\* of the table of contents while every other sheet is delivered, and when no
\* sheet survives the caller gets the placeholder document, not a failure.
C4_AsStated ==
    pc = "done" =>
        /\ response.status = 200
        /\ \A i \in 1..Len(dfs) :
             Survives(dfs[i].df) <=> (\E k \in 1..Len(results) : results[k].name = dfs[i].name)
        /\ (\A i \in 1..Len(dfs) : ~Survives(dfs[i].df)) =>
             response.combined.kind = "placeholder"

\* The part of C5 about one sheet: a failing sheet comes back as an inline
\* error fragment with the sheet's name, the message and an anchor of its
\* own, and its siblings are delivered.
FailuresInline ==
    \A i \in 1..Len(dfs) :
        Survives(dfs[i].df) =>
            \E k \in 1..Len(results) :
                /\ results[k].name = dfs[i].name
                /\ IF dfs[i].bad
                   THEN /\ results[k].content.kind = "error"
                        /\ results[k].content.sheet = dfs[i].name
                        /\ results[k].content.message = "render error"
                        /\ results[k].sheet_id[1] = "error"
                   ELSE results[k].content.kind = "sheet"

\* C5 as stated: a failing sheet becomes an inline error fragment, siblings
\* are delivered, and a readable workbook always yields a document.
C5_AsStated ==
    pc = "done" =>
        /\ response.status = 200
        /\ response.combined.kind \in {"document", "placeholder"}
        /\ FailuresInline

\* C9: with more than one sheet exactly one task is submitted per sheet and
\* never more than 4 execute at once; with one sheet nothing is submitted to
\* a pool; the dispatcher returns only when every submitted task is done.
C9_Pool ==
    /\ Cardinality(Running) <= 4
    /\ (pc # "start" /\ Len(dfs) > 1) =>
         /\ Len(futures) = Len(dfs)
         /\ \A i \in 1..Len(dfs) : futures[i] = dfs[i].name
         /\ \A i, j \in 1..Len(dfs) : i # j => dfs[i].name # dfs[j].name
         /\ DOMAIN taskState = 1..Len(futures)
    /\ (pc # "start" /\ Len(dfs) <= 1) =>
         /\ futures = <<>> /\ taskState = <<>>
         /\ pc \in {"inline", "assemble", "done"}
    /\ Returned => \A i \in DOMAIN taskState : taskState[i] = "done"

\* All four workers busy while a fifth sheet waits.
C9_Witness ==
    /\ pc = "pool"
    /\ Cardinality(Running) = 4
    /\ \E i \in DOMAIN taskState : taskState[i] = "queued"

----------------------------------------------------------------------------
(* The same sheets dispatched one after another *)

\* The loop of lines 232-234 over every item of dfs, with uuid4 draws of its own.
SeqDispatch ==
    /\ pc = "done"
    /\ seqOut.kind = "idle"
    /\ seqOut' = [kind |-> "ran"] @@ inline_loop(dfs, seqUuids, 1, <<>>)
    /\ UNCHANGED seqUuids
    /\ UNCHANGED <<sheetVars, requestVars, codecVars>>

InitEq ==
    /\ SheetIdle
    /\ CodecIdle
    /\ RequestStart
    /\ workbook \in RichNamed
    /\ uuids \in UuidStreams(Len(workbook))
    /\ seqUuids \in UuidStreams(Len(workbook))
    /\ seqOut = [kind |-> "idle"]

NextEq == Next \/ SeqDispatch

SpecEq == InitEq /\ [][NextEq]_vars

\* C6 as stated: the worker pool and the one-after-another loop give, for the
\* same sheets, identical fragments, identical anchor maps and the same order.
C6_AsStated ==
    (pc = "done" /\ Len(dfs) > 1 /\ seqOut.kind = "ran" /\ ~seqOut.raised) =>
        seqOut.results = results

----------------------------------------------------------------------------
(* The preview blob.  Characters are character codes. *)

CodePoints == {65, 37, 60, 233, 20013, 128512}

\* str.encode('utf-8') of one code point
utf8(cp) ==
    IF cp < 128 THEN <<cp>>
    ELSE IF cp < 2048 THEN <<192 + (cp \div 64), 128 + (cp % 64)>>
    ELSE IF cp < 65536
         THEN <<224 + (cp \div 4096), 128 + ((cp \div 64) % 64), 128 + (cp % 64)>>
    ELSE <<240 + (cp \div 262144), 128 + ((cp \div 4096) % 64),
           128 + ((cp \div 64) % 64), 128 + (cp % 64)>>

RECURSIVE encode_utf8(_)
encode_utf8(t) == IF t = <<>> THEN <<>> ELSE utf8(Head(t)) \o encode_utf8(Tail(t))

\* The Base64 alphabet: A-Z a-z 0-9 + /
b64char(v) ==
    IF v < 26 THEN 65 + v
    ELSE IF v < 52 THEN 97 + (v - 26)
    ELSE IF v < 62 THEN 48 + (v - 52)
    ELSE IF v = 62 THEN 43 ELSE 47

b64val(c) ==
    IF c >= 65 /\ c <= 90 THEN c - 65
    ELSE IF c >= 97 /\ c <= 122 THEN c - 97 + 26
    ELSE IF c >= 48 /\ c <= 57 THEN c - 48 + 52
    ELSE IF c = 43 THEN 62 ELSE 63

RECURSIVE b64encode(_)
\* base64.b64encode: three bytes to four characters, "=" padding at the end
b64encode(b) ==
    IF Len(b) = 0 THEN <<>>
    ELSE IF Len(b) = 1
    THEN <<b64char(b[1] \div 4), b64char((b[1] % 4) * 16), 61, 61>>
    ELSE IF Len(b) = 2
    THEN <<b64char(b[1] \div 4), b64char((b[1] % 4) * 16 + (b[2] \div 16)),
           b64char((b[2] % 16) * 4), 61>>
    ELSE <<b64char(b[1] \div 4), b64char((b[1] % 4) * 16 + (b[2] \div 16)),
           b64char((b[2] % 16) * 4 + (b[3] \div 64)), b64char(b[3] % 64)>>
         \o b64encode(SubSeq(b, 4, Len(b)))

RECURSIVE atob(_)
\* window.atob: four characters to up to three bytes, one character per byte
atob(s) ==
    IF Len(s) < 4 THEN <<>>
    ELSE LET v1 == b64val(s[1])
             v2 == b64val(s[2])
             b1 == v1 * 4 + (v2 \div 16)
         IN IF s[3] = 61 THEN <<b1>>
            ELSE LET v3 == b64val(s[3])
                     b2 == (v2 % 16) * 16 + (v3 \div 4)
                 IN IF s[4] = 61 THEN <<b1, b2>>
                    ELSE <<b1, b2, (v3 % 4) * 64 + b64val(s[4])>>
                         \o atob(SubSeq(s, 5, Len(s)))

hexdigit(n) == IF n < 10 THEN 48 + n ELSE 55 + n

hexval(c) == IF c >= 48 /\ c <= 57 THEN c - 48 ELSE c - 55

\* The characters escape() leaves alone: A-Z a-z 0-9 @ * _ + - . /
escape_keeps(c) ==
    \/ (c >= 65 /\ c <= 90) \/ (c >= 97 /\ c <= 122) \/ (c >= 48 /\ c <= 57)
    \/ c \in {64, 42, 95, 43, 45, 46, 47}

RECURSIVE escape(_)
\* escape(): every other character below 256 becomes %XX
escape(s) ==
    IF s = <<>> THEN <<>>
    ELSE (IF escape_keeps(Head(s)) THEN <<Head(s)>>
          ELSE <<37, hexdigit(Head(s) \div 16), hexdigit(Head(s) % 16)>>)
         \o escape(Tail(s))

\* A code point as UTF-16 code units
utf16(cp) ==
    IF cp < 65536 THEN <<cp>>
    ELSE <<55296 + ((cp - 65536) \div 1024), 56320 + ((cp - 65536) % 1024)>>

RECURSIVE to_utf16(_)
to_utf16(t) == IF t = <<>> THEN <<>> ELSE utf16(Head(t)) \o to_utf16(Tail(t))

URIError == <<-1>>

\* The byte written as %XX at position i of s, or -1
pct_byte(s, i) ==
    IF i + 2 <= Len(s) /\ s[i] = 37 THEN hexval(s[i + 1]) * 16 + hexval(s[i + 2]) ELSE -1

RECURSIVE decodeURIComponent(_, _)
\* decodeURIComponent from position i: %XX runs are read as UTF-8 and the code
\* point is emitted as UTF-16; a malformed run throws URIError.
decodeURIComponent(s, i) ==
    IF i > Len(s) THEN <<>>
    ELSE IF s[i] # 37
    THEN LET rest == decodeURIComponent(s, i + 1)
         IN IF rest = URIError THEN URIError ELSE <<s[i]>> \o rest
    ELSE LET b  == pct_byte(s, i)
             n  == IF b < 0 THEN -1
                   ELSE IF b < 128 THEN 0
                   ELSE IF b >= 194 /\ b <= 223 THEN 1
                   ELSE IF b >= 224 /\ b <= 239 THEN 2
                   ELSE IF b >= 240 /\ b <= 244 THEN 3 ELSE -1
             cont(k) == pct_byte(s, i + 3 * k)
             okc == n >= 0 /\ \A k \in 1..n : cont(k) >= 128 /\ cont(k) <= 191
             cp == IF n = 0 THEN b
                   ELSE IF n = 1 THEN (b - 192) * 64 + (cont(1) - 128)
                   ELSE IF n = 2 THEN (b - 224) * 4096 + (cont(1) - 128) * 64
                                      + (cont(2) - 128)
                   ELSE (b - 240) * 262144 + (cont(1) - 128) * 4096
                        + (cont(2) - 128) * 64 + (cont(3) - 128)
         IN IF ~okc THEN URIError
            ELSE LET rest == decodeURIComponent(s, i + 3 * (n + 1))
                 IN IF rest = URIError THEN URIError ELSE utf16(cp) \o rest

\* A decode that takes atob's byte-per-character string as the text.
client_decode_bytewise(b64Data) == atob(b64Data)

\* Line 186: decodeURIComponent(escape(window.atob(b64Data)))
client_decode(b64Data) == decodeURIComponent(escape(atob(b64Data)), 1)

RECURSIVE TextsUpTo(_)
TextsUpTo(n) ==
    IF n = 0 THEN {<<>>}
    ELSE LET shorter == TextsUpTo(n - 1)
         IN shorter \cup {Append(t, cp) : t \in shorter, cp \in CodePoints}

CodecInit ==
    /\ SheetIdle
    /\ RequestIdle
    /\ SeqIdle
    /\ codecPc = "text"
    /\ raw_html_table \in TextsUpTo(MaxTextLen)
    /\ html_bytes = <<>>
    /\ base64_str = <<>>
    /\ decodedHtml = <<>>

\* Lines 159-160, in the producer
Encode ==
    /\ codecPc = "text"
    /\ html_bytes' = encode_utf8(raw_html_table)
    /\ base64_str' = b64encode(html_bytes')
    /\ codecPc' = "encoded"
    /\ UNCHANGED <<raw_html_table, decodedHtml>>
    /\ UNCHANGED <<sheetVars, requestVars, seqVars>>

\* Lines 185-190, in the browser
ClientDecode ==
    /\ codecPc = "encoded"
    /\ decodedHtml' = client_decode(base64_str)
    /\ codecPc' = "decoded"
    /\ UNCHANGED <<raw_html_table, html_bytes, base64_str>>
    /\ UNCHANGED <<sheetVars, requestVars, seqVars>>

CodecNext == Encode \/ ClientDecode

SpecCodec == CodecInit /\ [][CodecNext]_vars

\* C7: for every markup text, multi-byte characters included, the Base64 blob
\* of its UTF-8 bytes, decoded by the fragment's script, is the original text;
\* the blob itself is plain Base64 characters, four for every three bytes,
\* and the producer leaves it undecoded.
C7_RoundTrip ==
    /\ codecPc = "encoded" => decodedHtml = <<>>
    /\ codecPc \in {"encoded", "decoded"} =>
         /\ Len(base64_str) = 4 * ((Len(html_bytes) + 2) \div 3)
         /\ \A k \in 1..Len(base64_str) :
               base64_str[k] \in (65..90) \cup (97..122) \cup (48..57) \cup {43, 47, 61}
    /\ codecPc = "decoded" => decodedHtml = to_utf16(raw_html_table)

\* A text with two-, three- and four-byte characters decoded by the script.
C7_Witness ==
    /\ codecPc = "decoded"
    /\ {233, 20013, 128512} \subseteq {raw_html_table[k] : k \in 1..Len(raw_html_table)}
    /\ Len(html_bytes) = 9
    /\ Len(decodedHtml) = 4

----------------------------------------------------------------------------
(* Input grids of the single-sheet specification *)

Lower == <<"a", "b", "c", "d", "e">>
Upper == <<"p", "q", "r", "s", "t">>

Styles == {"plain", "same", "blank", "alt"}

\* The text a filled cell (r, c) holds under a style.
CellText(style, r, c) ==
    CASE style = "plain" -> IF r % 2 = 1 THEN Lower[c] ELSE Upper[c]
      [] style = "same"  -> "a"
      [] style = "blank" -> IF r = 1 THEN Lower[c]
                            ELSE IF c % 2 = 1 THEN " " ELSE "b "
      [] style = "alt"   -> IF r = 1 THEN Lower[((c - 1) % 2) + 1] ELSE Upper[c]

GridOf(nr, nc, mask, style) ==
    [r \in 1..nr |-> [c \in 1..nc |->
        IF <<r, c>> \in mask THEN CellText(style, r, c) ELSE Null]]

\* Grids of up to MaxRows x MaxCols cells, any subset of them filled.
IsSmallGrid(g) ==
    \/ g = <<>>
    \/ \E nr \in 1..MaxRows, nc \in 1..MaxCols, style \in Styles :
         \E mask \in SUBSET ((1..nr) \X (1..nc)) : g = GridOf(nr, nc, mask, style)

TallPatterns == {"full", "gaps", "blanks", "sparsehead"}

\* Two-column grids long enough to pass the 50-row cap of the summary.
TallGrid(nr, pat) ==
    [r \in 1..nr |->
        CASE pat = "full"   -> <<CellText("plain", r, 1), CellText("plain", r, 2)>>
          [] pat = "gaps"   -> IF r % 3 = 0 THEN <<Null, Null>>
                               ELSE <<CellText("plain", r, 1), Null>>
          [] pat = "blanks" -> IF r > 1 /\ r % 2 = 0 THEN <<" ", " ">>
                               ELSE <<CellText("plain", r, 1), CellText("plain", r, 2)>>
          [] pat = "sparsehead" ->
                               IF r = 1 THEN <<"a", Null>>
                               ELSE <<CellText("plain", r, 1), CellText("plain", r, 2)>>]

IsTallGrid(g) ==
    \E nr \in (MaxTallRows - 3)..MaxTallRows, pat \in TallPatterns : g = TallGrid(nr, pat)

\* The two-row merged header "Sales" over "Region", "Q1", "Q2", "Q3", alone
\* and followed by one data row.
SalesHeader == <<<<"Sales", Null, Null, Null>>, <<"Region", "Q1", "Q2", "Q3">>>>

IsHeaderGrid(g) ==
    \/ g = SalesHeader
    \/ g = Append(SalesHeader, <<"East", "1", Null, "3">>)

SheetInit ==
    /\ sheetPc = "raw"
    /\ (IsSmallGrid(raw) \/ IsTallGrid(raw) \/ IsHeaderGrid(raw))
    /\ df = [index |-> <<>>, columns |-> <<>>, data |-> <<>>]
    /\ summary_lines = <<>>
    /\ RequestIdle
    /\ SeqIdle
    /\ CodecIdle

\* process_single_sheet_task, line 95
Clean ==
    /\ sheetPc = "raw"
    /\ df' = clean_dataframe(DataFrame(raw))
    /\ sheetPc' = IF IsEmpty(df') THEN "none" ELSE "clean"
    /\ UNCHANGED <<raw, summary_lines>>
    /\ UNCHANGED <<requestVars, seqVars, codecVars>>

\* process_single_sheet_task, lines 111-125
Summarize ==
    /\ sheetPc = "clean"
    /\ summary_lines' = build_summary(SheetLabel, df)
    /\ sheetPc' = "summarized"
    /\ UNCHANGED <<raw, df>>
    /\ UNCHANGED <<requestVars, seqVars, codecVars>>

SheetNext == Clean \/ Summarize

SpecSheet == SheetInit /\ [][SheetNext]_vars

----------------------------------------------------------------------------
(* Properties of the single-sheet specification *)

\* The grid left after dropping all-empty rows and columns.
Dropped == dropna_all(DataFrame(raw))

Row0Nulls(d) == Cardinality({c \in 1..NCols(d) : d.data[1][c] = Null})

Cleaned == sheetPc \in {"clean", "none", "summarized"}

\* Single-row-header mode: labels are row 0 as text, data starts at row 1.
SingleHeaderShape(d) ==
    /\ df.index = Tail(d.index)
    /\ df.columns = [c \in 1..NCols(d) |-> <<Str(d.data[1][c])>>]

\* Merged two-row-header mode: data starts at row 2.
MergedHeaderShape(d) == df.index = Tail(Tail(d.index))

\* C10 as stated: with more than one row left, a first row at least 50%
\* non-empty gives single-row-header mode, and a first row at least 50% empty
\* gives merged two-row-header mode.
C10_AsStated ==
    Cleaned =>
        LET d == Dropped
        IN NRows(d) > 1 =>
            /\ (2 * (NCols(d) - Row0Nulls(d)) >= NCols(d) => SingleHeaderShape(d))
            /\ (2 * Row0Nulls(d) >= NCols(d) => MergedHeaderShape(d))

\* C10 amended: with more than one row left, a first row MORE than 50%
\* non-empty (empty fraction strictly below 0.5) gives single-row-header mode
\* (labels = row 0, data from row 1), and a first row at least 50% empty,
\* the exact half included, gives merged two-row-header mode (data from row 2).
C10_HeaderMode ==
    Cleaned =>
        LET d == Dropped
        IN NRows(d) > 1 =>
            /\ (2 * Row0Nulls(d) < NCols(d) => SingleHeaderShape(d))
            /\ (2 * Row0Nulls(d) >= NCols(d) => MergedHeaderShape(d))

\* A cleaned grid whose first row is exactly half empty, resolved as merged.
C10_Witness ==
    /\ Cleaned
    /\ NRows(Dropped) > 2
    /\ 2 * Row0Nulls(Dropped) = NCols(Dropped)
    /\ MergedHeaderShape(Dropped) /\ ~SingleHeaderShape(Dropped)

\* The columns of normalized row r whose trimmed value is non-empty.
ValueCols(r) == {c \in 1..NCols(df) : Strip(Str(df.data[r][c])) # ""}

\* 0-based positions of the raw rows that are not entirely null.
SurvivingRaw == {i \in 0..(Len(raw) - 1) :
                    \E c \in 1..Width(raw) : raw[i + 1][c] # Null}

\* C8: the summary has at most min(N, 50) lines, one per row among the first
\* 50 normalized rows that has a non-empty trimmed value, in table order; each
\* line carries the sheet name, the row's 1-based number in the raw grid, and
\* exactly the label:value pairs with a non-empty trimmed value.
C8_Summary ==
    sheetPc = "summarized" =>
        LET lineRows == {r \in 1..NRows(df) : r <= 50 /\ ValueCols(r) # {}}
            surviving == SurvivingRaw
        IN
        /\ Len(summary_lines) <= Min(NRows(df), 50)
        /\ Len(summary_lines) = Cardinality(lineRows)
        /\ \A r \in lineRows :
             LET line == summary_lines[1 + Cardinality({q \in lineRows : q < r})]
                 cols == ValueCols(r)
             IN /\ line.sheet = SheetLabel
                /\ line.row = df.index[r] + 1
                /\ Len(line.parts) = Cardinality(cols)
                /\ \A c \in cols :
                     line.parts[1 + Cardinality({k \in cols : k < c})]
                        = <<df.columns[c], Strip(Str(df.data[r][c]))>>
        \* the row labels are raw positions: the surviving raw rows, in order,
        \* less the one or two consumed as headers
        /\ \A r \in 1..NRows(df) : df.index[r] \in surviving
        /\ \A r \in 1..(NRows(df) - 1) : df.index[r] < df.index[r + 1]
        /\ Cardinality(surviving) - NRows(df) \in 0..2
        /\ \A i \in surviving :
             (\E r \in 1..NRows(df) : df.index[r] = i)
             \/ Cardinality({j \in surviving : j < i}) < 2

\* A table longer than the cap, with rows that give no line, summarized.
C8_Witness ==
    /\ sheetPc = "summarized"
    /\ NRows(df) > 50
    /\ Len(summary_lines) > 0 /\ Len(summary_lines) < 50
    /\ summary_lines[1].row = 3
    /\ \E r \in 1..50 : ValueCols(r) = {}

\* Row 0 of d holds a value in its first column only, and row 1 is full.
SpanningHeader(d) ==
    /\ NRows(d) > 1 /\ NCols(d) > 1
    /\ d.data[1][1] # Null
    /\ \A c \in 2..NCols(d) : d.data[1][c] = Null
    /\ \A c \in 1..NCols(d) : d.data[2][c] # Null

\* h0 joined to h1 with an underscore, or the one text when they are equal.
Joined(h0, h1) == IF h0 # h1 THEN <<h0, "_", h1>> ELSE <<h1>>

\* C11 as stated: in merged two-row-header mode, when row 0 has a value only
\* in its first column and row 1 is fully populated, the first label is the
\* row-0 value joined to the row-1 value with an underscore and every
\* remaining label is its row-1 value alone; in general a column whose row-0
\* cell is empty and whose row-1 cell is not is labelled with the row-1 value.
C11_AsStated ==
    Cleaned =>
        LET d == Dropped
        IN (NRows(d) > 1 /\ 2 * Row0Nulls(d) >= NCols(d)) =>
            /\ SpanningHeader(d) =>
                  /\ df.columns[1] = Joined(d.data[1][1], d.data[2][1])
                  /\ \A c \in 2..NCols(d) : df.columns[c] = <<d.data[2][c]>>
            /\ \A c \in 1..NCols(d) :
                  (d.data[1][c] = Null /\ d.data[2][c] # Null)
                      => df.columns[c] = <<d.data[2][c]>>

\* C11 amended: in merged two-row-header mode row 0 is forward-filled left
\* to right before the pairing.  When row 0 has a value only in its first
\* column and row 1 is fully populated, the first label is the row-0 value
\* joined to the row-1 value with an underscore, and every remaining label is
\* that same row-0 value joined to the column's own row-1 value (the row-1
\* value alone only where the two are equal); in general a column is
\* labelled with its row-1 value alone when row 1 is non-empty there and row
\* 0 has no value in that column or in any column to its left.
C11_MergedLabels ==
    Cleaned =>
        LET d == Dropped
        IN (NRows(d) > 1 /\ 2 * Row0Nulls(d) >= NCols(d)) =>
            /\ SpanningHeader(d) =>
                  \A c \in 1..NCols(d) :
                      df.columns[c] = Joined(d.data[1][1], d.data[2][c])
            /\ \A c \in 1..NCols(d) :
                  (/\ \A k \in 1..c : d.data[1][k] = Null
                   /\ d.data[2][c] # Null)
                      => df.columns[c] = <<d.data[2][c]>>

\* The "Sales" header resolved: the spanning value reaches the last column.
C11_Witness ==
    /\ Cleaned
    /\ IsHeaderGrid(raw)
    /\ SpanningHeader(Dropped)
    /\ 2 * Row0Nulls(Dropped) >= NCols(Dropped)
    /\ df.columns = << <<"Sales", "_", "Region">>, <<"Sales", "_", "Q1">>,
                       <<"Sales", "_", "Q2">>, <<"Sales", "_", "Q3">> >>

\* The frame as header resolution leaves it, before the merged-cell repair.
Headed ==
    LET d == Dropped
    IN IF IsEmpty(d) \/ NRows(d) = 1 THEN d ELSE resolve_header(d)

\* The normalizer ran to its end: the final null replacement left no null.
NoNullLeft ==
    \A r \in 1..NRows(df) : \A c \in 1..NCols(df) : df.data[r][c] # Null

\* C12 as stated: the merged-cell repair forward-fills only the columns at
\* positions 0 and 1, whatever the labels, duplicated ones included: in a
\* table the normalizer has run through, a null cell in a column at index 2
\* or higher is never replaced by the value above it and ends as the empty
\* string, and a filled cell there keeps its value.
C12_AsStated ==
    (Cleaned /\ NoNullLeft) =>
        LET h == Headed
        IN \A r \in 1..NRows(h) : \A c \in 3..NCols(h) :
              df.data[r][c] = IF h.data[r][c] = Null THEN "" ELSE h.data[r][c]

====
